---- MODULE Spec2Model ----
(***************************************************************************)
(* A model of orjson's calendar formatter (src/datetime.rs) and of its     *)
(* decode engine with the interned-key cache (src/decode.rs).              *)
(*                                                                         *)
(* FmtSpec drives Date/Time/DateTime::write_buf over bounded inputs.       *)
(* Spec drives concurrent deserialize() calls over a shared KEY_MAP and a  *)
(* reference-counted host heap.                                            *)
(***************************************************************************)
EXTENDS Integers, Sequences, FiniteSets, TLC

VARIABLES
    fmt,        \* the formatting call in progress: inputs, locals, buffer
    heap,       \* host objects by address (index): kind, refcount, contents
    uaf,        \* an object was used or released after it was deallocated
    cache,      \* KEY_MAP: the occupied slots of the associative cache
    lock,       \* the thread holding KEY_MAP's mutex, 0 when it is free
    pc,         \* per thread: where its deserialize() call stands
    doc,        \* per thread: the input handed to deserialize()
    pos,        \* per thread: the parser's position in the input
    stack,      \* per thread: the visit_map / visit_seq frames in progress
    root,       \* per thread: the root value once parsed, 0 before
    prevKeys,   \* history: key objects the last completed decode obtained
    curKeys,    \* history: key objects the running decode has obtained
    calls       \* history: the number of deserialize() calls made so far

decodeVars ==
    <<heap, uaf, cache, lock, pc, doc, pos, stack, root, prevKeys, curKeys, calls>>
vars ==
    <<fmt, heap, uaf, cache, lock, pc, doc, pos, stack, root, prevKeys, curKeys,
      calls>>

(***************************************************************************)
(* src/datetime.rs                                                         *)
(***************************************************************************)

HYPHEN == 45
PLUS == 43
ZERO == 48
T == 84
COLON == 58
PERIOD == 46
Z == 90

\* heapless::Vec<u8, U32>
BufCapacity == 32

\* A DateTimeBuffer: the bytes appended so far, and whether an append was
\* refused (push/extend_from_slice returned Err and .unwrap() panicked).
EmptyBuffer == [bytes |-> << >>, panic |-> FALSE]

\* heapless::Vec::extend_from_slice(..).unwrap(): all or nothing.
ExtendFromSlice(buf, slice) ==
    IF buf.panic \/ Len(buf.bytes) + Len(slice) > BufCapacity
    THEN [buf EXCEPT !.panic = TRUE]
    ELSE [buf EXCEPT !.bytes = @ \o slice]

\* heapless::Vec::push(..).unwrap()
Push(buf, byte) == ExtendFromSlice(buf, <<byte>>)

\* itoa::Buffer::new().format(n).as_bytes() for n >= 0: decimal ASCII digits,
\* no padding.
RECURSIVE Itoa(_)
Itoa(n) ==
    IF n < 10 THEN <<ZERO + n>>
    ELSE Itoa(n \div 10) \o <<ZERO + (n % 10)>>

\* macro write_double_digit!
WriteDoubleDigit(buf, value) ==
    LET b1 == IF value < 10 THEN Push(buf, ZERO) ELSE buf
    IN  ExtendFromSlice(b1, Itoa(value))

\* &[ZERO; 6][..n]
Zeros(n) == [i \in 1..n |-> ZERO]

\* write_microsecond! padding the fraction to nine digits, as for nanoseconds.
WriteMicrosecond_NineDigits(buf, microsecond) ==
    IF microsecond # 0
    THEN LET b1 == Push(buf, PERIOD)
             formatted == Itoa(microsecond)
             b2 == ExtendFromSlice(b1, Zeros(9 - Len(formatted)))
         IN  ExtendFromSlice(b2, formatted)
    ELSE buf

\* macro write_microsecond!
WriteMicrosecond(buf, microsecond) ==
    IF microsecond # 0
    THEN LET b1 == Push(buf, PERIOD)
             formatted == Itoa(microsecond)
             b2 == ExtendFromSlice(b1, Zeros(6 - Len(formatted)))
         IN  ExtendFromSlice(b2, formatted)
    ELSE buf

\* Date::write_buf
DateWriteBuf(buf, d) ==
    LET b1 == ExtendFromSlice(buf, Itoa(d.year))
        b2 == Push(b1, HYPHEN)
        b3 == WriteDoubleDigit(b2, d.month)
        b4 == Push(b3, HYPHEN)
    IN  WriteDoubleDigit(b4, d.day)

\* Time::write_buf
TimeWriteBuf(buf, t, opts) ==
    LET b1 == WriteDoubleDigit(buf, t.hour)
        b2 == Push(b1, COLON)
        b3 == WriteDoubleDigit(b2, t.minute)
        b4 == Push(b3, COLON)
        b5 == WriteDoubleDigit(b4, t.second)
    IN  IF "OMIT_MICROSECONDS" \notin opts
        THEN WriteMicrosecond(b5, t.microsecond)
        ELSE b5

\* The probes of lines 156-190 with normalize tried before conversion.
Convention_NormalizeFirst(caps) ==
    IF "normalize" \in caps THEN "normalize"
    ELSE IF "convert" \in caps THEN "convert"
    ELSE IF "dst" \in caps THEN "dst"
    ELSE "none"

\* DateTime::write_buf, lines 156, 165, 180, 190: the PyObject_HasAttr probes
\* of the tzinfo, in order; the first that answers names the protocol.
Convention(caps) ==
    IF "convert" \in caps THEN "convert"
    ELSE IF "normalize" \in caps THEN "normalize"
    ELSE IF "dst" \in caps THEN "dst"
    ELSE "none"

\* DateTime::write_buf, lines 148-193: the offset the attached tzinfo yields.
\* tz: hastzinfo, and for an aware value the attributes its tzinfo exposes
\* (caps) and what each of the three utcoffset() protocols returns for it.
ResolveOffset(tz) ==
    IF ~tz.hastzinfo
    THEN [err |-> "none", has_tz |-> FALSE, offset_day |-> 0, offset_second |-> 0]
    ELSE LET via == Convention(tz.caps)
             offset == CASE via = "convert" -> tz.dt_utcoffset
                         [] via = "normalize" -> tz.normalized_utcoffset
                         [] via = "dst" -> tz.tzinfo_utcoffset
                         [] OTHER -> [days |-> 0, seconds |-> 0]
         IN  [err |-> IF via = "none" THEN "LibraryUnsupported" ELSE "none",
              has_tz |-> TRUE,
              offset_day |-> offset.days, offset_second |-> offset.seconds]

\* DateTime::write_buf, lines 195-229: YYYY-MM-DDTHH:MM:SS[.ffffff]
WriteDateTimeFields(buf, dt, opts) ==
    LET b1 == ExtendFromSlice(buf, Itoa(dt.year))
        b2 == Push(b1, HYPHEN)
        b3 == WriteDoubleDigit(b2, dt.month)
        b4 == Push(b3, HYPHEN)
        b5 == WriteDoubleDigit(b4, dt.day)
        b6 == Push(b5, T)
        b7 == WriteDoubleDigit(b6, dt.hour)
        b8 == Push(b7, COLON)
        b9 == WriteDoubleDigit(b8, dt.minute)
        b10 == Push(b9, COLON)
        b11 == WriteDoubleDigit(b10, dt.second)
    IN  IF "OMIT_MICROSECONDS" \notin opts
        THEN WriteMicrosecond(b11, dt.microsecond)
        ELSE b11

\* The sign chosen without undoing the day borrow.
OffsetSign_NoCorrection(offset_day, offset_second) ==
    IF offset_day = -1
    THEN [byte |-> HYPHEN, offset_second |-> offset_second]
    ELSE [byte |-> PLUS, offset_second |-> offset_second]

\* DateTime::write_buf, lines 239-246: sign byte and corrected offset seconds.
OffsetSign(offset_day, offset_second) ==
    IF offset_day = -1
    THEN [byte |-> HYPHEN, offset_second |-> 86400 - offset_second]
    ELSE [byte |-> PLUS, offset_second |-> offset_second]

\* The minutes field without the rounding of lines 260-264.
OffsetMinutePrint_Truncate(offset_second) == (offset_second \div 60) % 60

\* DateTime::write_buf, lines 253-265: the minutes field as printed.
OffsetMinutePrint(offset_second) ==
    LET offset_minute == offset_second \div 60
        offset_hour == offset_minute \div 60
        offset_minute_print == offset_minute % 60
        offset_excess_second ==
            offset_second - (offset_minute_print * 60 + offset_hour * 3600)
    IN  IF offset_excess_second >= 30
        THEN offset_minute_print + 1
        ELSE offset_minute_print

\* The test of line 230 without the NAIVE_UTC option.
EmitsOffset_AwareOnly(has_tz, opts) == has_tz

\* DateTime::write_buf, line 230
EmitsOffset(has_tz, opts) == has_tz \/ "NAIVE_UTC" \in opts

\* DateTime::write_buf, lines 230-276: the offset suffix.
WriteOffset(buf, has_tz, offset_day, offset_second, opts) ==
    IF EmitsOffset(has_tz, opts)
    THEN IF offset_second = 0
         THEN IF "UTC_Z" \in opts
              THEN Push(buf, Z)
              ELSE ExtendFromSlice(buf, <<PLUS, ZERO, ZERO, COLON, ZERO, ZERO>>)
         ELSE LET s == OffsetSign(offset_day, offset_second)
                  b1 == Push(buf, s.byte)
                  offset_minute == s.offset_second \div 60
                  offset_hour == offset_minute \div 60
                  b2 == WriteDoubleDigit(b1, offset_hour)
                  b3 == Push(b2, COLON)
                  offset_minute_print == OffsetMinutePrint(s.offset_second)
                  b4 == IF offset_minute_print < 10 THEN Push(b3, ZERO) ELSE b3
              IN  ExtendFromSlice(b4, Itoa(offset_minute_print))
    ELSE buf

\* DateTime::write_buf: Err(LibraryUnsupported) before any append, or the
\* buffer after the fields and the suffix.
DateTimeWriteBuf(buf, dt, opts) ==
    LET r == ResolveOffset(dt.tz)
    IN  IF r.err # "none"
        THEN [err |-> r.err, buf |-> buf, has_tz |-> r.has_tz,
              offset_day |-> r.offset_day, offset_second |-> r.offset_second]
        ELSE [err |-> "none",
              buf |-> WriteOffset(WriteDateTimeFields(buf, dt, opts),
                                  r.has_tz, r.offset_day, r.offset_second, opts),
              has_tz |-> r.has_tz,
              offset_day |-> r.offset_day, offset_second |-> r.offset_second]

(***************************************************************************)
(* Inputs of the formatter: host values as the ffi accessors expose them.  *)
(***************************************************************************)

Opts == SUBSET {"OMIT_MICROSECONDS", "NAIVE_UTC", "UTC_Z"}

Years == {1, 2023, 9999}
Months == {1, 12}
Days == {5, 31}
Hours == {9, 23}
Minutes == {5, 59}
Seconds == {0, 59}
Microseconds == {0, 1, 250000, 999999}

\* timedelta.seconds values resolved from a tzinfo: the zero offset, whole
\* minutes, sub-minute remainders on both sides of 30, hour boundaries.
OffsetSeconds ==
    {0, 1, 29, 30, 60, 1172, 3570, 3599, 18000, 37800,
     68400, 82830, 86340, 86370, 86399}
Offsets == [days : {0, -1}, seconds : OffsetSeconds]

\* What the two utcoffset() protocols that are not chosen would return.
OtherOffsetA == [days |-> 0, seconds |-> 3600]
OtherOffsetB == [days |-> 0, seconds |-> 7200]

Capabilities == {"convert", "normalize", "dst"}

NaiveTz ==
    [hastzinfo |-> FALSE, caps |-> {}, dt_utcoffset |-> OtherOffsetA,
     normalized_utcoffset |-> OtherOffsetA, tzinfo_utcoffset |-> OtherOffsetA]

TzInfos ==
    { [hastzinfo |-> TRUE, caps |-> c, dt_utcoffset |-> o,
       normalized_utcoffset |-> OtherOffsetA, tzinfo_utcoffset |-> OtherOffsetB]
        : c \in SUBSET Capabilities, o \in Offsets }
    \cup
    { [hastzinfo |-> TRUE, caps |-> c, dt_utcoffset |-> OtherOffsetA,
       normalized_utcoffset |-> o, tzinfo_utcoffset |-> OtherOffsetB]
        : c \in SUBSET Capabilities, o \in Offsets }
    \cup
    { [hastzinfo |-> TRUE, caps |-> c, dt_utcoffset |-> OtherOffsetA,
       normalized_utcoffset |-> OtherOffsetB, tzinfo_utcoffset |-> o]
        : c \in SUBSET Capabilities, o \in Offsets }

fmtIdle == [op |-> "idle"]

\* impl Serialize for Date
SerializeDate ==
    /\ fmt.op = "idle"
    /\ \E y \in Years, m \in Months, d \in Days :
         LET in == [year |-> y, month |-> m, day |-> d]
         IN  fmt' = [op |-> "date", in |-> in, opts |-> {}, err |-> "none",
                     buf |-> DateWriteBuf(EmptyBuffer, in)]
    /\ UNCHANGED decodeVars

\* Time::new then impl Serialize for Time
SerializeTime ==
    /\ fmt.op = "idle"
    /\ \E h \in Hours, mi \in Minutes, s \in Seconds, us \in Microseconds,
          hastzinfo \in BOOLEAN, opts \in Opts :
         LET in == [hour |-> h, minute |-> mi, second |-> s,
                    microsecond |-> us, hastzinfo |-> hastzinfo]
         IN  fmt' = IF hastzinfo
                    THEN [op |-> "time", in |-> in, opts |-> opts,
                          err |-> "HasTimezone", buf |-> EmptyBuffer]
                    ELSE [op |-> "time", in |-> in, opts |-> opts,
                          err |-> "none",
                          buf |-> TimeWriteBuf(EmptyBuffer, in, opts)]
    /\ UNCHANGED decodeVars

\* impl Serialize for DateTime
SerializeDateTime ==
    /\ fmt.op = "idle"
    /\ \E y \in Years, m \in Months, us \in {0, 250000, 999999},
          tz \in {NaiveTz} \cup TzInfos, opts \in Opts :
         LET in == [year |-> y, month |-> m, day |-> 5, hour |-> 9,
                    minute |-> 5, second |-> 0, microsecond |-> us, tz |-> tz]
             r == DateTimeWriteBuf(EmptyBuffer, in, opts)
         IN  fmt' = [op |-> "datetime", in |-> in, opts |-> opts,
                     err |-> r.err, buf |-> r.buf, has_tz |-> r.has_tz,
                     offset_day |-> r.offset_day,
                     offset_second |-> r.offset_second]
    /\ UNCHANGED decodeVars

\* The buffer is local to one call and discarded after it.
FmtReturn ==
    /\ fmt.op # "idle"
    /\ fmt' = fmtIdle
    /\ UNCHANGED decodeVars

(***************************************************************************)
(* src/decode.rs                                                           *)
(***************************************************************************)

\* AssociativeCache<.., Capacity512, HashDirectMapped, ..>
Capacity == 512

\* visit_map: keys longer than this bypass KEY_MAP
MaxKeyLen == 64

Threads == {1, 2}

\* Object keys of the inputs, named by role.  k1 and k2 are distinct strings
\* with the same seeded 64-bit hash; k3 has another hash that maps to the same
\* slot; klong is longer than 64 bytes.
Keys == {"k1", "k2", "k3", "klong"}

\* key.len()
KeyLen(k) ==
    CASE k = "k1" -> 2
      [] k = "k2" -> 64
      [] k = "k3" -> 2
      [] k = "klong" -> 65

\* wyhash(key.as_bytes(), HASH_SEED): a 64-bit hash of arbitrarily many
\* strings, hence not injective.
wyhash(k) ==
    CASE k = "k1" -> 7
      [] k = "k2" -> 7
      [] k = "k3" -> 519
      [] k = "klong" -> 8

\* HashDirectMapped: the one candidate slot of a cache key.
SlotIndex(hash) == hash % Capacity

\* hash_str(pyob): the host's native hash of a str, a function of its content.
NativeHash(text) ==
    CASE text = "k1" -> 101
      [] text = "k2" -> 102
      [] text = "k3" -> 103
      [] text = "klong" -> 104
      [] OTHER -> 100

ShortKeys == {k \in Keys : KeyLen(k) <= MaxKeyLen}

(* Inputs: token sequences, as serde_json hands them to the visitor. *)

ValueTokens == {"{", "[", "int", "null"}

Docs ==
    { <<"{", "k1", "null", "}", "eof">>,
      <<"{", "k1", "bad">>,
      <<"{", "k3", "{", "k1", "null", "}", "}", "eof">>,
      <<"{", "k2", "null", "}", "eof">>,
      <<"{", "k1", "null", "k3", "null", "}", "eof">>,
      <<"{", "klong", "int", "}", "eof">>,
      <<"[", "int", "bad">>,
      <<"{", "k1", "null", "}", "bad">>,
      <<"[", "null", "]", "eof">> }

\* Inputs deserialize() refuses before parsing: not bytes/bytearray/str, or
\* not valid UTF-8.
InvalidInput == <<"invalid">>

\* Tokens of s from position i on that make the engine construct an object.
RECURSIVE Constructs(_, _)
Constructs(s, i) ==
    IF i > Len(s) THEN 0
    ELSE (IF s[i] \in {"{", "]", "int"} \cup Keys THEN 1 ELSE 0)
         + Constructs(s, i + 1)

\* The most objects the engine constructs for one input.
MaxDocObjects ==
    CHOOSE n \in 0..8 :
        /\ \A d \in Docs : Constructs(d, 1) <= n
        /\ \E d \in Docs : Constructs(d, 1) = n

(* Host objects.  A reference is an address, an index into heap; 0 is the   *)
(* null pointer.  Address 1 is the None singleton; every thread constructs  *)
(* its objects at fresh addresses of its own (a thread-local arena), so an  *)
(* address is never reused and names one object for the whole run.          *)

\* Bound on the deserialize() calls in one run of the model.
MaxCalls == 2

\* Room for what MaxCalls calls of one thread construct.
ArenaSize == MaxCalls * MaxDocObjects

Addresses == 1..(1 + ArenaSize * Cardinality(Threads))

\* Memory no object has been constructed in.
Unallocated ==
    [kind |-> "unallocated", live |-> FALSE, rc |-> 0, text |-> "",
     keys |-> << >>, vals |-> << >>, lost |-> 0]

\* The addresses of thread t's arena, and how many of them are in use.
Arena(t) == {a \in Addresses : a > 1 /\ (a - 2) % Cardinality(Threads) = t - 1}
Used(objs, t) == Cardinality({a \in Arena(t) : objs[a].kind # "unallocated"})
NextAddress(objs, t) == 1 + Used(objs, t) * Cardinality(Threads) + t

NewObject(kind, text) ==
    [kind |-> kind, live |-> TRUE, rc |-> 1, text |-> text,
     keys |-> << >>, vals |-> << >>, lost |-> 0]

\* typeref NONE: the shared singleton, owned by the host runtime.
NONE == 1

\* Py_INCREF
Incref(h, o) ==
    IF ~h.objs[o].live
    THEN [h EXCEPT !.uaf = TRUE]
    ELSE [h EXCEPT !.objs[o].rc = @ + 1]

\* Py_DECREF: at zero the object is deallocated and releases what it holds.
RECURSIVE Decref(_, _), DecrefAll(_, _)
Decref(h, o) ==
    IF ~h.objs[o].live
    THEN [h EXCEPT !.uaf = TRUE]
    ELSE IF h.objs[o].rc > 1
    THEN [h EXCEPT !.objs[o].rc = @ - 1]
    ELSE DecrefAll([h EXCEPT !.objs[o] =
                       [@ EXCEPT !.rc = 0, !.live = FALSE,
                                 !.keys = << >>, !.vals = << >>]],
                   h.objs[o].keys \o h.objs[o].vals)
DecrefAll(h, refs) ==
    IF refs = << >> THEN h
    ELSE DecrefAll(Decref(h, Head(refs)), Tail(refs))

\* A constructor of the host (PyDict_New, PyLong_From.., str_to_pyobject!,
\* PyList_New): a new object with one reference, owned by the caller.
Alloc(h, t, obj) == [h EXCEPT !.objs[NextAddress(h.objs, t)] = obj]

\* CachedKey::new
CachedKeyNew(slot, hash, ptr, pyhash) ==
    [slot |-> slot, key |-> hash, ptr |-> ptr, hash |-> pyhash]

\* CachedKey::get
CachedKeyGet(h, entry) == Incref(h, entry.ptr)

\* A CachedKey dropped without releasing its reference.
CachedKeyDrop_Forget(h, entry) == h

\* impl Drop for CachedKey
CachedKeyDrop(h, entry) == Decref(h, entry.ptr)

\* An entry() that never recognises the resident key.
EntryKind_NeverOccupied(c, hash) ==
    IF {e \in c : e.slot = SlotIndex(hash)} = {} THEN "Vacant" ELSE "Replace"

\* AssociativeCache::entry: Occupied when the slot's key equals the looked-up
\* key, Vacant when the slot is empty, Replace otherwise.
EntryKind(c, hash) ==
    LET resident == {e \in c : e.slot = SlotIndex(hash)}
    IN  IF \E e \in resident : e.key = hash THEN "Occupied"
        ELSE IF resident = {} THEN "Vacant"
        ELSE "Replace"

\* Entry::or_insert_with, Replace: the previous occupants of the slot.
Evicted(c, hash) == {e \in c : e.slot = SlotIndex(hash)}

RECURSIVE DropAll(_, _)
DropAll(h, entries) ==
    IF entries = {} THEN h
    ELSE LET e == CHOOSE e \in entries : TRUE
         IN  DropAll(CachedKeyDrop(h, e), entries \ {e})

\* visit_map, lines 207-217: map.entry(&hash).or_insert_with(..) then
\* entry.get(), for raw key k read by thread t.  Yields the cache, the heap
\* and (pykey, pyhash).
KeyMapLookup(c, h, t, k) ==
    LET hash == wyhash(k)
        kind == EntryKind(c, hash)
    IN  IF kind = "Occupied"
        THEN LET e == CHOOSE e \in c : e.slot = SlotIndex(hash) /\ e.key = hash
             IN  [cache |-> c, h |-> CachedKeyGet(h, e),
                  pykey |-> e.ptr, pyhash |-> e.hash]
        ELSE LET pyob == NextAddress(h.objs, t)
                 h1 == Alloc(h, t, NewObject("str", k))
                 e == CachedKeyNew(SlotIndex(hash), hash, pyob, NativeHash(k))
                 old == IF kind = "Replace" THEN Evicted(c, hash) ELSE {}
                 h2 == DropAll(h1, old)
             IN  [cache |-> (c \ old) \cup {e}, h |-> CachedKeyGet(h2, e),
                  pykey |-> pyob, pyhash |-> e.hash]

\* _PyDict_SetItem_KnownHash: the dict takes its own references; a key equal
\* to one already present keeps the present key object and replaces its value.
DictSetItem(h, d, key, value) ==
    LET h1 == Incref(Incref(h, key), value)
        dobj == h1.objs[d]
        same == {i \in 1..Len(dobj.keys) :
                    h1.objs[dobj.keys[i]].text = h1.objs[key].text}
    IN  IF same = {}
        THEN [h1 EXCEPT !.objs[d].keys = Append(@, key),
                        !.objs[d].vals = Append(@, value)]
        ELSE LET i == CHOOSE i \in same : TRUE
                 h2 == [h1 EXCEPT !.objs[d].vals[i] = value]
             IN  Decref(Decref(h2, dobj.vals[i]), key)

MapFrame(ptr) ==
    [kind |-> "map", ptr |-> ptr, key |-> "", pykey |-> 0, pyhash |-> 0,
     elements |-> << >>]
SeqFrame ==
    [kind |-> "seq", ptr |-> 0, key |-> "", pykey |-> 0, pyhash |-> 0,
     elements |-> << >>]

H == [objs |-> heap, uaf |-> uaf]
Tok(t) == doc[t][pos[t]]
Top(t) == stack[t][Len(stack[t])]
Active(t) == pc[t] \notin {"idle", "done", "failed"}
Alone(t) == \A u \in Threads \ {t} : ~Active(u)
NoKeys == [k \in ShortKeys |-> 0]

\* A parsed value returns to its caller: deserialize() for the root,
\* visit_map (lines 220-224) or visit_seq (line 184) otherwise.
Deliver(t, h, stk, value) ==
    IF stk = << >>
    THEN [h |-> h, stack |-> stk, pc |-> "end", root |-> value]
    ELSE LET n == Len(stk)
             top == stk[n]
         IN  IF top.kind = "map"
             THEN LET h1 == DictSetItem(h, top.ptr, top.pykey, value)
                      h2 == Decref(h1, top.pykey)
                      h3 == Decref(h2, value)
                  IN  [h |-> h3,
                       stack |-> [stk EXCEPT ![n].pykey = 0, ![n].pyhash = 0,
                                             ![n].key = ""],
                       pc |-> "key", root |-> 0]
             ELSE [h |-> h,
                   stack |-> [stk EXCEPT ![n].elements = Append(@, value)],
                   pc |-> "elem", root |-> 0]

\* References held in the locals of a call: dict_ptr, pykey, elements of each
\* frame, and the root.
RECURSIVE FrameRefs(_)
FrameRefs(stk) ==
    IF stk = << >> THEN << >>
    ELSE LET f == Head(stk)
         IN  (IF f.ptr # 0 THEN <<f.ptr>> ELSE << >>)
             \o (IF f.pykey # 0 THEN <<f.pykey>> ELSE << >>)
             \o f.elements \o FrameRefs(Tail(stk))
HeldRefs(t) ==
    FrameRefs(stack[t]) \o (IF root[t] # 0 THEN <<root[t]>> ELSE << >>)

\* An Err return drops the locals: raw pointers, nothing is released.
RECURSIVE Abandon(_, _)
Abandon(objs, refs) ==
    IF refs = << >> THEN objs
    ELSE Abandon([objs EXCEPT ![Head(refs)].lost = @ + 1], Tail(refs))

\* deserialize, lines 57-92: the input is checked, the parser is set up.
Deserialize(t) ==
    /\ pc[t] = "idle"
    /\ \E d \in Docs \cup {InvalidInput} :
         /\ doc' = [doc EXCEPT ![t] = d]
         /\ pc' = [pc EXCEPT ![t] = IF d = InvalidInput THEN "failed" ELSE "value"]
    /\ pos' = [pos EXCEPT ![t] = 1]
    /\ stack' = [stack EXCEPT ![t] = << >>]
    /\ root' = [root EXCEPT ![t] = 0]
    /\ curKeys' = NoKeys
    /\ prevKeys' = IF Alone(t) THEN prevKeys ELSE NoKeys
    /\ calls < MaxCalls
    /\ calls' = calls + 1
    /\ UNCHANGED <<fmt, heap, uaf, cache, lock>>

\* visit_unit, visit_i64 / visit_u64 / visit_f64
VisitScalar(t) ==
    /\ pc[t] \in {"value", "elem"}
    /\ Tok(t) \in {"int", "null"}
    /\ LET h1 == IF Tok(t) = "null" THEN Incref(H, NONE)
                 ELSE Alloc(H, t, NewObject("int", ""))
           value == IF Tok(t) = "null" THEN NONE ELSE NextAddress(heap, t)
           r == Deliver(t, h1, stack[t], value)
       IN  /\ heap' = r.h.objs
           /\ uaf' = r.h.uaf
           /\ stack' = [stack EXCEPT ![t] = r.stack]
           /\ pc' = [pc EXCEPT ![t] = r.pc]
           /\ root' = [root EXCEPT ![t] = r.root]
    /\ pos' = [pos EXCEPT ![t] = @ + 1]
    /\ UNCHANGED <<fmt, cache, lock, doc, prevKeys, curKeys, calls>>

\* visit_map, line 197
VisitMapBegin(t) ==
    /\ pc[t] \in {"value", "elem"}
    /\ Tok(t) = "{"
    /\ LET h1 == Alloc(H, t, NewObject("dict", ""))
       IN  /\ heap' = h1.objs
           /\ stack' = [stack EXCEPT ![t] =
                            Append(@, MapFrame(NextAddress(heap, t)))]
    /\ pc' = [pc EXCEPT ![t] = "key"]
    /\ pos' = [pos EXCEPT ![t] = @ + 1]
    /\ UNCHANGED <<fmt, uaf, cache, lock, doc, root, prevKeys, curKeys, calls>>

\* visit_seq, line 182
VisitSeqBegin(t) ==
    /\ pc[t] \in {"value", "elem"}
    /\ Tok(t) = "["
    /\ stack' = [stack EXCEPT ![t] = Append(@, SeqFrame)]
    /\ pc' = [pc EXCEPT ![t] = "elem"]
    /\ pos' = [pos EXCEPT ![t] = @ + 1]
    /\ UNCHANGED <<fmt, heap, uaf, cache, lock, doc, root, prevKeys, curKeys, calls>>

\* visit_map, lines 198-205: the next key is read; a long key is constructed
\* on the spot, a short one goes to KEY_MAP.
NextKey(t) ==
    /\ pc[t] = "key"
    /\ Tok(t) \in Keys
    /\ LET k == Tok(t)
           n == Len(stack[t])
       IN  IF KeyLen(k) > MaxKeyLen
           THEN LET h1 == Alloc(H, t, NewObject("str", k))
                IN  /\ heap' = h1.objs
                    /\ stack' = [stack EXCEPT ![t][n].key = k,
                                              ![t][n].pykey = NextAddress(heap, t),
                                              ![t][n].pyhash = NativeHash(k)]
                    /\ pc' = [pc EXCEPT ![t] = "value"]
           ELSE /\ heap' = heap
                /\ stack' = [stack EXCEPT ![t][n].key = k]
                /\ pc' = [pc EXCEPT ![t] = "lock"]
    /\ pos' = [pos EXCEPT ![t] = @ + 1]
    /\ UNCHANGED <<fmt, uaf, cache, lock, doc, root, prevKeys, curKeys, calls>>

\* A lock() that returns without waiting for the holder.
MutexAvailable_NoWait(t) == TRUE

\* parking_lot::Mutex::lock returns once no thread holds the mutex.
MutexAvailable(t) == lock = 0

\* visit_map, line 207: KEY_MAP.lock()
Lock(t) ==
    /\ pc[t] = "lock"
    /\ MutexAvailable(t)
    /\ lock' = t
    /\ pc' = [pc EXCEPT ![t] = "cs"]
    /\ UNCHANGED <<fmt, heap, uaf, cache, doc, pos, stack, root, prevKeys, curKeys, calls>>

\* visit_map, line 218: the guard goes out of scope and frees the mutex.
MutexUnlock(t) == 0

\* visit_map, lines 208-218: lookup or insert under the lock, then unlock.
LookupOrInsert(t) ==
    /\ pc[t] = "cs"
    /\ LET n == Len(stack[t])
           k == Top(t).key
           r == KeyMapLookup(cache, H, t, k)
       IN  /\ cache' = r.cache
           /\ heap' = r.h.objs
           /\ uaf' = r.h.uaf
           /\ stack' = [stack EXCEPT ![t][n].pykey = r.pykey,
                                     ![t][n].pyhash = r.pyhash]
           /\ curKeys' = IF Alone(t) THEN [curKeys EXCEPT ![k] = r.pykey]
                         ELSE curKeys
    /\ lock' = MutexUnlock(t)
    /\ pc' = [pc EXCEPT ![t] = "value"]
    /\ UNCHANGED <<fmt, doc, pos, root, prevKeys, calls>>

\* visit_map, lines 198 and 226: no key is left, the dict is returned.
MapEnd(t) ==
    /\ pc[t] = "key"
    /\ Tok(t) = "}"
    /\ LET n == Len(stack[t])
           r == Deliver(t, H, SubSeq(stack[t], 1, n - 1), Top(t).ptr)
       IN  /\ heap' = r.h.objs
           /\ uaf' = r.h.uaf
           /\ stack' = [stack EXCEPT ![t] = r.stack]
           /\ pc' = [pc EXCEPT ![t] = r.pc]
           /\ root' = [root EXCEPT ![t] = r.root]
    /\ pos' = [pos EXCEPT ![t] = @ + 1]
    /\ UNCHANGED <<fmt, cache, lock, doc, prevKeys, curKeys, calls>>

\* visit_seq, lines 186-190: the list is built and takes over the elements.
SeqEnd(t) ==
    /\ pc[t] = "elem"
    /\ Tok(t) = "]"
    /\ LET n == Len(stack[t])
           h1 == Alloc(H, t, [NewObject("list", "") EXCEPT
                                 !.vals = Top(t).elements])
           r == Deliver(t, h1, SubSeq(stack[t], 1, n - 1), NextAddress(heap, t))
       IN  /\ heap' = r.h.objs
           /\ uaf' = r.h.uaf
           /\ stack' = [stack EXCEPT ![t] = r.stack]
           /\ pc' = [pc EXCEPT ![t] = r.pc]
           /\ root' = [root EXCEPT ![t] = r.root]
    /\ pos' = [pos EXCEPT ![t] = @ + 1]
    /\ UNCHANGED <<fmt, cache, lock, doc, prevKeys, curKeys, calls>>

\* The tokens serde_json accepts where a value, an element or a key is due.
Expected(at) ==
    CASE at = "value" -> ValueTokens
      [] at = "elem" -> ValueTokens \cup {"]"}
      [] at = "key" -> Keys \cup {"}"}

\* The parser reports an error where a value, a key or an element is
\* expected: the `?` of lines 183, 198, 220 returns it from every frame, and
\* deserialize (line 100) returns Err.
SyntaxError(t) ==
    /\ pc[t] \in {"value", "elem", "key"}
    /\ Tok(t) \notin Expected(pc[t])
    /\ heap' = Abandon(heap, HeldRefs(t))
    /\ pc' = [pc EXCEPT ![t] = "failed"]
    /\ curKeys' = NoKeys
    /\ prevKeys' = NoKeys
    /\ UNCHANGED <<fmt, uaf, cache, lock, doc, pos, stack, root, calls>>

\* deserialize, lines 94-99: deserializer.end() after the root value.
End(t) ==
    /\ pc[t] = "end"
    /\ IF Tok(t) = "eof"
       THEN /\ pc' = [pc EXCEPT ![t] = "done"]
            /\ heap' = heap
            /\ prevKeys' = IF Alone(t) THEN curKeys ELSE NoKeys
       ELSE /\ pc' = [pc EXCEPT ![t] = "failed"]
            /\ heap' = Abandon(heap, HeldRefs(t))
            /\ prevKeys' = NoKeys
    /\ curKeys' = NoKeys
    /\ UNCHANGED <<fmt, uaf, cache, lock, doc, pos, stack, root, calls>>

\* The caller of deserialize() is done with the root it was given.
ReleaseRoot(t) ==
    /\ pc[t] = "done"
    /\ LET h1 == Decref(H, root[t])
       IN  /\ heap' = h1.objs
           /\ uaf' = h1.uaf
    /\ pc' = [pc EXCEPT ![t] = "idle"]
    /\ root' = [root EXCEPT ![t] = 0]
    /\ doc' = [doc EXCEPT ![t] = InvalidInput]
    /\ pos' = [pos EXCEPT ![t] = 1]
    /\ UNCHANGED <<fmt, cache, lock, stack, prevKeys, curKeys, calls>>

\* The caller of deserialize() has seen the error.
RaiseError(t) ==
    /\ pc[t] = "failed"
    /\ pc' = [pc EXCEPT ![t] = "idle"]
    /\ stack' = [stack EXCEPT ![t] = << >>]
    /\ root' = [root EXCEPT ![t] = 0]
    /\ doc' = [doc EXCEPT ![t] = InvalidInput]
    /\ pos' = [pos EXCEPT ![t] = 1]
    /\ UNCHANGED <<fmt, heap, uaf, cache, lock, prevKeys, curKeys, calls>>

DecodeInit ==
    /\ heap = [a \in Addresses |->
                 IF a = NONE THEN NewObject("none", "") ELSE Unallocated]
    /\ uaf = FALSE
    /\ cache = {}
    /\ lock = 0
    /\ pc = [t \in Threads |-> "idle"]
    /\ doc = [t \in Threads |-> InvalidInput]
    /\ pos = [t \in Threads |-> 1]
    /\ stack = [t \in Threads |-> << >>]
    /\ root = [t \in Threads |-> 0]
    /\ prevKeys = NoKeys
    /\ curKeys = NoKeys
    /\ calls = 0

Init == fmt = fmtIdle /\ DecodeInit

Next ==
    \E t \in Threads :
        \/ Deserialize(t)
        \/ VisitScalar(t)
        \/ VisitMapBegin(t)
        \/ VisitSeqBegin(t)
        \/ NextKey(t)
        \/ Lock(t)
        \/ LookupOrInsert(t)
        \/ MapEnd(t)
        \/ SeqEnd(t)
        \/ SyntaxError(t)
        \/ End(t)
        \/ ReleaseRoot(t)
        \/ RaiseError(t)

Spec == Init /\ [][Next]_vars

\* A thread inside the lookup-or-insert step keeps running until it has left
\* it, and parking_lot's mutex is eventually fair: a thread that waits for it
\* while it is free again and again gets it.
FairSpec ==
    Spec /\ \A t \in Threads : WF_vars(LookupOrInsert(t)) /\ SF_vars(Lock(t))

FmtInit == fmt = fmtIdle /\ DecodeInit
FmtNext == SerializeDate \/ SerializeTime \/ SerializeDateTime \/ FmtReturn
FmtSpec == FmtInit /\ [][FmtNext]_vars

(***************************************************************************)
(* Properties of the calendar formatter (checked under FmtSpec).           *)
(***************************************************************************)

\* The last n bytes of a byte string.
Suffix(bytes, n) == SubSeq(bytes, Len(bytes) - n + 1, Len(bytes))

\* Two ASCII digits read back as a number.
TwoDigitValue(hi, lo) == (hi - 48) * 10 + (lo - 48)

\* Natural width of a year in 1..9999.
YearWidth(y) == IF y < 10 THEN 1 ELSE IF y < 100 THEN 2 ELSE IF y < 1000 THEN 3 ELSE 4

\* Length of YYYY-MM-DDTHH:MM:SS[.ffffff] for the formatted value.
FieldsLen ==
    YearWidth(fmt.in.year) + 15
    + (IF fmt.in.microsecond # 0 /\ "OMIT_MICROSECONDS" \notin fmt.opts THEN 7 ELSE 0)

FormattedDateTime == fmt.op = "datetime" /\ fmt.err = "none"

\* The true magnitude of the resolved offset, in seconds.
OffsetMagnitude ==
    IF fmt.offset_day = -1 THEN 86400 - fmt.offset_second ELSE fmt.offset_second

\* C1: a non-zero whole-minute offset is printed as sign, two-digit hours,
\* ':' and two-digit minutes; the sign is '-' iff offset-day = -1 and the
\* magnitude is offset-seconds (day 0) or 86400 - offset-seconds (day -1).
C1_WholeMinuteOffset ==
    (/\ FormattedDateTime
     /\ fmt.offset_day \in {0, -1}
     /\ fmt.offset_second \in 1..86399
     /\ fmt.offset_second % 60 = 0)
    => LET hh == OffsetMagnitude \div 3600
           mm == (OffsetMagnitude % 3600) \div 60
       IN  /\ Len(fmt.buf.bytes) = FieldsLen + 6
           /\ Suffix(fmt.buf.bytes, 6) =
                << IF fmt.offset_day = -1 THEN 45 ELSE 43,
                   48 + (hh \div 10), 48 + (hh % 10), 58,
                   48 + (mm \div 10), 48 + (mm % 10) >>

\* C1 witness: timedelta(days=-1, seconds=68400) was printed as -05:00.
C1_Witness ==
    /\ FormattedDateTime
    /\ fmt.offset_day = -1 /\ fmt.offset_second = 68400
    /\ Suffix(fmt.buf.bytes, 6) = <<45, 48, 53, 58, 48, 48>>

C3_SuffixEmission ==
    FormattedDateTime
    => LET n == Len(fmt.buf.bytes)
           b == fmt.buf.bytes
           emits == fmt.in.tz.hastzinfo \/ "NAIVE_UTC" \in fmt.opts
       IN  /\ (n > FieldsLen) <=> emits
           /\ (emits /\ fmt.offset_second = 0)
                => IF "UTC_Z" \in fmt.opts
                   THEN n = FieldsLen + 1 /\ b[n] = 90
                   ELSE n = FieldsLen + 6
                        /\ Suffix(b, 6) = <<43, 48, 48, 58, 48, 48>>
           /\ ~emits => (n = FieldsLen /\ b[n] \in 48..57)

\* C3 witness: a naive value with NAIVE_UTC and UTC_Z ends in Z.
C3_Witness ==
    /\ FormattedDateTime
    /\ ~fmt.in.tz.hastzinfo
    /\ fmt.opts = {"NAIVE_UTC", "UTC_Z"}
    /\ fmt.buf.bytes[Len(fmt.buf.bytes)] = 90

\* C4: an aware value takes its offset from the first of conversion,
\* normalize, daylight-saving that its tzinfo exposes; it fails with
\* LibraryUnsupported exactly when none is exposed, with an empty buffer.
C4_OffsetResolution ==
    (fmt.op = "datetime" /\ fmt.in.tz.hastzinfo)
    => LET tz == fmt.in.tz
           resolved == [days |-> fmt.offset_day, seconds |-> fmt.offset_second]
       IN  /\ (fmt.err = "LibraryUnsupported") <=> (tz.caps \cap Capabilities = {})
           /\ fmt.err \in {"none", "LibraryUnsupported"}
           /\ "convert" \in tz.caps => resolved = tz.dt_utcoffset
           /\ ("convert" \notin tz.caps /\ "normalize" \in tz.caps)
                => resolved = tz.normalized_utcoffset
           /\ ("convert" \notin tz.caps /\ "normalize" \notin tz.caps
                 /\ "dst" \in tz.caps)
                => resolved = tz.tzinfo_utcoffset
           /\ fmt.err # "none" => fmt.buf.bytes = << >>

\* C4 witness: a tzinfo with none of the three attributes was refused before
\* any byte was written.
C4_Witness ==
    /\ fmt.op = "datetime"
    /\ fmt.in.tz.hastzinfo /\ fmt.in.tz.caps = {}
    /\ fmt.err = "LibraryUnsupported"
    /\ fmt.buf.bytes = << >>

\* C5: no formatting call ever holds more than 32 bytes in its buffer, and no
\* append to it is refused.
C5_BufferBound ==
    fmt.op # "idle"
    => /\ ~fmt.buf.panic
       /\ Len(fmt.buf.bytes) <= 32

\* C5 witness: a four-digit year with microseconds and a non-zero offset
\* fills the buffer exactly.
C5_Witness ==
    /\ FormattedDateTime
    /\ fmt.in.year = 9999 /\ fmt.offset_second # 0
    /\ Len(fmt.buf.bytes) = 32
    /\ ~fmt.buf.panic

(***************************************************************************)
(* Properties of the decode engine and the key cache (checked under Spec,  *)
(* the liveness part of C6 under FairSpec).                                *)
(***************************************************************************)

\* The frames of all calls, as (thread, depth) pairs.
Frames == UNION { {<<t, i>> : i \in DOMAIN stack[t]} : t \in Threads }

\* The key slots of all live dicts, as (object, index) pairs.
DictKeySlots == UNION { {<<d, i>> : i \in DOMAIN heap[d].keys} : d \in DOMAIN heap }

\* References to object o that KEY_MAP owns.
Residency(o) == Cardinality({e \in cache : e.ptr = o})

\* Handles to key object o that were handed out and not yet released: held by
\* a running call as pykey, held by a dict as a key, or dropped unreleased.
Handles(o) ==
    Cardinality({f \in Frames :
                    pc[f[1]] # "failed" /\ stack[f[1]][f[2]].pykey = o})
    + Cardinality({s \in DictKeySlots : heap[s[1]].keys[s[2]] = o})
    + heap[o].lost

MutexInv ==
    /\ \A t, u \in Threads : (pc[t] = "cs" /\ pc[u] = "cs") => t = u
    /\ \A t \in Threads : (pc[t] = "cs") <=> (lock = t)

\* C6: at most one call is inside the lookup-or-insert step; a call holds the
\* mutex exactly during that step (not when it requests it, not while it
\* parses the value); every call that requests the mutex obtains it.
C6_LockDiscipline ==
    /\ []MutexInv
    /\ \A t \in Threads : (pc[t] = "lock") ~> (pc[t] = "cs")

\* C6 witness: a call is inside the step for the key of a nested object while
\* the other call waits for the mutex.
C6_Witness ==
    \E t, u \in Threads :
        /\ pc[t] = "cs" /\ Len(stack[t]) = 2
        /\ pc[u] = "lock" /\ lock = t

C8_NothingHeldAfterError ==
    \A t \in Threads : pc[t] = "failed" => HeldRefs(t) = << >>

\* A call has just obtained the key object of a short key.
GotShortKey(t) ==
    /\ pc[t] = "value"
    /\ stack[t] # << >>
    /\ Top(t).kind = "map"
    /\ Top(t).pykey # 0
    /\ Top(t).key \in ShortKeys

\* C9 as stated: the decode that follows another one gets, for a short key
\* both share, the key object the first decode got.
C9_SecondDecodeReuses ==
    \A t \in Threads :
        (GotShortKey(t) /\ prevKeys[Top(t).key] # 0)
        => Top(t).pykey = prevKeys[Top(t).key]

\* C9 amended: the decode that follows another one gets, for a short key both
\* share, the key object the first decode got, and constructs no string,
\* provided that object is still resident when the key is looked up.
C9_ReuseWhileResident ==
    [][\A t \in Threads :
         (/\ pc[t] = "cs" /\ pc'[t] = "value"
          /\ prevKeys[Top(t).key] # 0
          /\ \E e \in cache : e.ptr = prevKeys[Top(t).key])
         => /\ stack'[t][Len(stack[t])].pykey = prevKeys[Top(t).key]
            /\ Used(heap', t) = Used(heap, t)]_vars

\* C9 witness: the second decode holds the key object the first one got.
C9_Witness ==
    \E t \in Threads :
        /\ GotShortKey(t)
        /\ prevKeys[Top(t).key] = Top(t).pykey

\* C10: the key object a lookup returns for a short key has the content of
\* the raw key just read, and the hash returned is that content's native hash.
C10_LookupReturnsKey ==
    \A f \in Frames :
        LET frame == stack[f[1]][f[2]]
        IN  (frame.pykey # 0 /\ frame.key \in ShortKeys)
            => /\ heap[frame.pykey].text = frame.key
               /\ frame.pyhash = NativeHash(frame.key)

====
